---------------------------- MODULE Spec2Model ----------------------------
(* A model of FSDecomp: DecompressFS wraps a read-only io/fs store and,    *)
(* when a literal path is missing, opens a compressed variant of it         *)
(* (.gz, .bz2, .zst, .lz4) and hands back a file that decodes on Read.      *)
(*                                                                          *)
(* Strings are sequences of one-character strings, so that HasSuffix and    *)
(* TrimSuffix are computed on characters as the Go code computes them.      *)
EXTENDS Integers, Sequences, FiniteSets, TLC

VARIABLES
    store,   \* the underlying fs.FS: path -> entry
    call,    \* the DecompressFS.Open call being followed, with its result
    handle,  \* the raw fs.File that call obtained from the store, if any
    file,    \* the fs.File that call returned to the caller, if any
    dir,     \* the directory the underlying store lists
    readdir, \* the DecompressFS.ReadDir call being followed, with its result
    meta     \* a metadata value and the names it has been rewritten to

vars == <<store, call, handle, file, dir, readdir, meta>>

-----------------------------------------------------------------------------
(* Bounds of the model *)

\* content bytes are drawn from 0..MaxByte
MaxByte == 1
\* Stat calls a caller makes on one file
MaxStats == 2
\* entries of the listed directory
MaxEntries == 2
\* times one metadata value is rewritten
MaxWraps == 2

-----------------------------------------------------------------------------
(* strings *)

HasSuffix(s, suf) ==
    /\ Len(s) >= Len(suf)
    /\ SubSeq(s, Len(s) - Len(suf) + 1, Len(s)) = suf

TrimSuffix(s, suf) ==
    IF HasSuffix(s, suf) THEN SubSeq(s, 1, Len(s) - Len(suf)) ELSE s

\* the last element of a slash-separated path, as fs.FileInfo.Name reports it
Base(p) ==
    LET slashes == {i \in 1..Len(p) : p[i] = "/"}
        from == IF slashes = {} THEN 1
                ELSE 1 + CHOOSE i \in slashes : \A j \in slashes : j <= i
    IN SubSeq(p, from, Len(p))

-----------------------------------------------------------------------------
(* the codec table *)

Codecs == {"gzip", "bzip2", "zstd", "lz4"}

\* bzip2 and zstd change places
SuffixOrderSwapped == <<"gzip", "zstd", "bzip2", "lz4">>

\* the order in which Open tries the compressed variants
SuffixOrder == <<"gzip", "bzip2", "zstd", "lz4">>

Suffix(c) ==
    CASE c = "gzip"  -> <<".", "g", "z">>
      [] c = "bzip2" -> <<".", "b", "z", "2">>
      [] c = "zstd"  -> <<".", "z", "s", "t">>
      [] c = "lz4"   -> <<".", "l", "z", "4">>

-----------------------------------------------------------------------------
(* the codecs, as capabilities: a stream is a magic byte, the payload      *)
(* length, and the payload shifted by a codec-specific key.                 *)

ByteMod == 256

Magic(c) ==
    CASE c = "gzip"  -> 31
      [] c = "bzip2" -> 66
      [] c = "zstd"  -> 40
      [] c = "lz4"   -> 4

Encode(c, content) ==
    <<Magic(c), Len(content)>>
        \o [i \in 1..Len(content) |-> (content[i] + Magic(c)) % ByteMod]

\* the stream starts with the codec's header
HeaderOK(c, bytes) == Len(bytes) >= 1 /\ bytes[1] = Magic(c)

\* the whole stream is well-formed
StreamOK(c, bytes) ==
    /\ HeaderOK(c, bytes)
    /\ Len(bytes) >= 2
    /\ bytes[2] = Len(bytes) - 2

\* what reading a well-formed stream to its end yields
Decode(c, bytes) ==
    [i \in 1..(Len(bytes) - 2) |-> (bytes[i + 2] - Magic(c)) % ByteMod]

-----------------------------------------------------------------------------
(* the underlying store *)

PathA == <<"d", "/", "a">>

StorePaths == {PathA} \cup {PathA \o Suffix(c) : c \in Codecs}

\* the paths a caller asks DecompressFS for
RequestPaths == {PathA, PathA \o Suffix("gzip")}

Contents == {<<>>} \cup {<<b>> : b \in 0..MaxByte}

\* what the literal file holds when it exists
LiteralData == <<7, 7>>

\* a stream no codec accepts: the magic byte is wrong
BadHeader == <<0, 0>>

\* a stream cut short after a valid header
Truncated(c, content) ==
    LET e == Encode(c, content) IN SubSeq(e, 1, Len(e) - 1)

ImageKinds == {"absent", "fault", "valid", "badheader", "truncated"}

Image(p, kind, bytes) ==
    [status  |-> IF kind \in {"absent", "fault"} THEN kind ELSE "ok",
     data    |-> IF kind \in {"absent", "fault"} THEN <<>> ELSE bytes,
     mode    |-> 400 + Len(p),
     modTime |-> 1000 + Len(p)]

VariantBytes(c, kind, content) ==
    CASE kind = "valid"     -> Encode(c, content)
      [] kind = "badheader" -> BadHeader
      [] kind = "truncated" -> Truncated(c, content)
      [] OTHER              -> <<>>

\* every store of the family: the literal is absent, faulty or present, and
\* each compressed variant is absent, faulty, well-formed or malformed
MakeStore(lit, kinds, content) ==
    [p \in StorePaths |->
        IF p = PathA THEN Image(p, lit, LiteralData)
        ELSE LET c == CHOOSE x \in Codecs : p = PathA \o Suffix(x)
             IN Image(p, kinds[c], VariantBytes(c, kinds[c], content))]

\* errors are values: a kind and the path the store was asked for
NoErr == [kind |-> "nil", path |-> <<>>]

FaultKinds == {"permission", "io"}

\* every error counts as not-found
IsNotExistAny(err) == TRUE

\* errors.Is(err, fs.ErrNotExist)
IsNotExist(err) == err.kind = "notexist"

\* dfs.FS.Open(p): the error it returns (NoErr when it hands out a file)
StoreOpen(p, faultKind) ==
    IF p \in DOMAIN store /\ store[p].status = "ok" THEN NoErr
    ELSE IF p \in DOMAIN store /\ store[p].status = "fault"
         THEN [kind |-> faultKind, path |-> p]
         ELSE [kind |-> "notexist", path |-> p]

\* the metadata the store reports for an entry (fs.FileInfo)
StoreInfo(p) ==
    [name    |-> Base(p),
     size    |-> Len(store[p].data),
     mode    |-> store[p].mode,
     modTime |-> store[p].modTime,
     isDir   |-> FALSE]

\* a raw fs.File as the store hands it out: its Close and Stat calls are
\* counted, and the error of its last Stat is kept
NoHandle ==
    [path |-> <<>>, data |-> <<>>, closes |-> 0, stats |-> 0,
     statErr |-> NoErr]

NewHandle(p) ==
    [path |-> p, data |-> store[p].data, closes |-> 0, stats |-> 0,
     statErr |-> NoErr]

\* f.Stat() on a raw file
RawStat(h, statFails) ==
    [h EXCEPT !.stats = @ + 1,
              !.statErr = IF statFails THEN [kind |-> "stat", path |-> h.path]
                          ELSE NoErr]

\* f.Close() on a raw file
RawClose(h) == [h EXCEPT !.closes = @ + 1]

-----------------------------------------------------------------------------
(* metadata *)

\* df.info == nil
NoInfo == [nil |-> TRUE]

\* the wrapper forgets the new name
modifyFileInfoKeepName(info, newName) ==
    [FileInfo |-> info, name |-> info.name]

\* fileInfoWrapper{FileInfo: info, name: newName}
modifyFileInfo(info, newName) == [FileInfo |-> info, name |-> newName]

IsWrapper(info) == "FileInfo" \in DOMAIN info

\* fileInfoWrapper.Name; the store's own FileInfo reports its name field
InfoName(info) == info.name

\* the methods fileInfoWrapper does not define are those of the embedded
\* FileInfo
RECURSIVE InfoSize(_)
InfoSize(info) == IF IsWrapper(info) THEN InfoSize(info.FileInfo) ELSE info.size

RECURSIVE InfoMode(_)
InfoMode(info) == IF IsWrapper(info) THEN InfoMode(info.FileInfo) ELSE info.mode

RECURSIVE InfoModTime(_)
InfoModTime(info) ==
    IF IsWrapper(info) THEN InfoModTime(info.FileInfo) ELSE info.modTime

-----------------------------------------------------------------------------
(* the files DecompressFS returns *)

\* the fields a caller's Read, Stat and Close fill in
Fresh ==
    [readDone  |-> FALSE, readData |-> <<>>, readErr |-> NoErr,
     statCalls |-> 0, statInfo |-> NoInfo, statErr |-> NoErr,
     closed    |-> FALSE, closeErr |-> NoErr, closeLog |-> <<>>,
     decReleases |-> 0]

\* Open returned nil for the file
NoFile ==
    [kind |-> "none", reader |-> "none", closer |-> "none", info |-> NoInfo]
        @@ Fresh

\* the store's own file, returned as it is
RawFile ==
    [kind |-> "raw", reader |-> "none", closer |-> "f", info |-> NoInfo]
        @@ Fresh

\* &decompressFile{reader, closer, info, originalFS}
decompressFile(c, closer, info) ==
    [kind |-> "decomp", reader |-> c, closer |-> closer, info |-> info]
        @@ Fresh

\* the decoders that hold resources of their own until their Close is
\* called: gzip.Reader and zstd.Decoder have a Close method, bzip2's and
\* lz4's readers have none
HoldsResources(c) == c \in {"gzip", "zstd"}

\* the raw file is left open when its Stat fails
newFileLeakOnStat(c, h, ctorFails, statFails, closer) ==
    IF ctorFails
    THEN [err    |-> [kind |-> "decode", path |-> h.path],
          handle |-> RawClose(h),
          file   |-> NoFile]
    ELSE IF statFails
    THEN [err    |-> RawStat(h, TRUE).statErr,
          handle |-> RawStat(h, TRUE),
          file   |-> NoFile]
    ELSE [err    |-> NoErr,
          handle |-> RawStat(h, FALSE),
          file   |-> decompressFile(c, closer,
                         modifyFileInfo(StoreInfo(h.path),
                             TrimSuffix(Base(h.path), Suffix(c))))]

\* the shape the four constructors share: build the decoder, fetch the raw
\* file's metadata, wrap it under the name without the suffix
newFile(c, h, ctorFails, statFails, closer) ==
    IF ctorFails
    THEN [err    |-> [kind |-> "decode", path |-> h.path],
          handle |-> RawClose(h),
          file   |-> NoFile]
    ELSE IF statFails
    THEN [err    |-> RawStat(h, TRUE).statErr,
          handle |-> RawClose(RawStat(h, TRUE)),
          file   |-> NoFile]
    ELSE LET info == StoreInfo(h.path)
         IN [err    |-> NoErr,
             handle |-> RawStat(h, FALSE),
             file   |-> decompressFile(c, closer,
                            modifyFileInfo(info,
                                TrimSuffix(InfoName(info), Suffix(c))))]

\* the error of gzip.NewReader is ignored
newGzipFileUnchecked(h, statFails) ==
    newFile("gzip", h, FALSE, statFails, "multi")

\* gzip.NewReader reads the header and fails on a malformed one
newGzipFile(h, statFails) ==
    newFile("gzip", h, ~HeaderOK("gzip", h.data), statFails, "multi")

\* bzip2.NewReader returns no error
newBzip2File(h, statFails) ==
    newFile("bzip2", h, FALSE, statFails, "f")

\* zstd.NewReader returns an error; whether a malformed header makes it do
\* so is the library's choice (rejects)
newZstdFile(h, statFails, rejects) ==
    newFile("zstd", h, rejects /\ ~HeaderOK("zstd", h.data), statFails, "f")

\* lz4.NewReader returns no error
newLz4File(h, statFails) ==
    newFile("lz4", h, FALSE, statFails, "f")

newCodecFile(c, h, statFails, rejects) ==
    CASE c = "gzip"  -> newGzipFile(h, statFails)
      [] c = "bzip2" -> newBzip2File(h, statFails)
      [] c = "zstd"  -> newZstdFile(h, statFails, rejects)
      [] c = "lz4"   -> newLz4File(h, statFails)

-----------------------------------------------------------------------------
(* DecompressFS.Open *)

NoCall == [path |-> <<>>, opened |-> <<>>, err |-> NoErr, codec |-> "none",
           returned |-> FALSE]

\* the compressed variants tried from position i of SuffixOrder on: the
\* paths passed to the store, in order, the codec of the first that opened
\* and the error of the last that did not
RECURSIVE Probe(_, _, _)
Probe(name, i, faultKind) ==
    IF i > Len(SuffixOrder)
    THEN [opened |-> <<>>, codec |-> "none", lastErr |-> NoErr]
    ELSE LET p == name \o Suffix(SuffixOrder[i])
             e == StoreOpen(p, faultKind)
         IN IF e = NoErr
            THEN [opened |-> <<p>>, codec |-> SuffixOrder[i],
                  lastErr |-> NoErr]
            ELSE LET rest == Probe(name, i + 1, faultKind)
                 IN [opened  |-> <<p>> \o rest.opened,
                     codec   |-> rest.codec,
                     lastErr |-> IF rest.lastErr = NoErr THEN e
                                 ELSE rest.lastErr]

\* "if err == nil { return file, nil }": the store's file is the result
LiteralOutcome(name) ==
    [call   |-> [path |-> name, opened |-> <<name>>, err |-> NoErr,
                 codec |-> "none", returned |-> TRUE],
     handle |-> NewHandle(name),
     file   |-> RawFile]

\* the first variant that opened goes to its codec's constructor
VariantOutcome(name, pr, statFails, rejects) ==
    LET h == NewHandle(name \o Suffix(pr.codec))
        r == newCodecFile(pr.codec, h, statFails, rejects)
    IN [call   |-> [path |-> name, opened |-> <<name>> \o pr.opened,
                    err |-> r.err, codec |-> pr.codec,
                    returned |-> r.err = NoErr],
        handle |-> r.handle,
        file   |-> r.file]

\* the error of the last attempt is returned
FinalErrLast(err, lastProbeErr) == lastProbeErr

\* "return nil, err": the error returned once every attempt has failed
FinalErr(err, lastProbeErr) == err

FailOutcome(name, opened, err) ==
    [call   |-> [path |-> name, opened |-> opened, err |-> err,
                 codec |-> "none", returned |-> FALSE],
     handle |-> NoHandle,
     file   |-> NoFile]

\* the compressed variants are tried before the literal path
OpenOutcomeVariantFirst(name, litKind, faultKind, statFails, rejects) ==
    LET err == StoreOpen(name, litKind)
        pr  == Probe(name, 1, faultKind)
    IN IF pr.codec # "none"
       THEN VariantOutcome(name, pr, statFails, rejects)
       ELSE IF err = NoErr THEN LiteralOutcome(name)
       ELSE FailOutcome(name, <<name>> \o pr.opened, err)

\* the outcome of dfs.Open(name): the call's record, the raw handle it
\* obtained and the file it returned
OpenOutcome(name, litKind, faultKind, statFails, rejects) ==
    LET err == StoreOpen(name, litKind)
    IN IF err = NoErr THEN LiteralOutcome(name)
       ELSE IF IsNotExist(err)
       THEN LET pr == Probe(name, 1, faultKind)
            IN IF pr.codec # "none"
               THEN VariantOutcome(name, pr, statFails, rejects)
               ELSE FailOutcome(name, <<name>> \o pr.opened,
                                FinalErr(err, pr.lastErr))
       ELSE FailOutcome(name, <<name>>, err)

-----------------------------------------------------------------------------
(* the caller's operations on the returned file *)

\* io.ReadAll(file): decompressFile.Read until the reader ends; a malformed
\* stream ends it with the decoder's error
ReadAll(f, h) ==
    IF f.kind = "raw"
    THEN [data |-> h.data, err |-> NoErr]
    ELSE IF StreamOK(f.reader, h.data)
         THEN [data |-> Decode(f.reader, h.data), err |-> NoErr]
         ELSE [data |-> <<>>, err |-> [kind |-> "decode", path |-> h.path]]

\* the stored metadata is ignored: every Stat asks the raw file
StatOutcomeAlwaysRaw(f, h, statFails) ==
    [info   |-> IF statFails THEN NoInfo ELSE StoreInfo(h.path),
     err    |-> RawStat(h, statFails).statErr,
     handle |-> RawStat(h, statFails)]

\* decompressFile.Stat, and the store's own Stat for a raw file
StatOutcome(f, h, statFails) ==
    IF f.kind = "decomp" /\ f.info # NoInfo
    THEN [info |-> f.info, err |-> NoErr, handle |-> h]
    ELSE [info   |-> IF statFails THEN NoInfo ELSE StoreInfo(h.path),
          err    |-> RawStat(h, statFails).statErr,
          handle |-> RawStat(h, statFails)]

\* the result of one closer's Close, as the close log keeps it
Closed(who, err) == [closer |-> who, err |-> err]

\* c2 is not closed when c1 fails
multiCloserCloseShortCircuit(err1, err2) ==
    IF err1 # NoErr
    THEN [err |-> err1, log |-> <<Closed("decoder", err1)>>]
    ELSE [err |-> err2,
          log |-> <<Closed("decoder", err1), Closed("raw", err2)>>]

\* multiCloser.Close: c1 then c2 are closed, the first error is returned
multiCloserClose(err1, err2) ==
    [err |-> IF err1 # NoErr THEN err1 ELSE err2,
     log |-> <<Closed("decoder", err1), Closed("raw", err2)>>]

\* decompressFile.Close: df.closer.Close(); the closer is the multiCloser of
\* the decoder and the raw file, or the raw file alone
closerClose(closer, err1, err2) ==
    IF closer = "multi" THEN multiCloserClose(err1, err2)
    ELSE [err |-> err2, log |-> <<Closed("raw", err2)>>]

\* how many times Close reached the given closer
Reached(log, who) == Cardinality({i \in 1..Len(log) : log[i].closer = who})

CloseOutcome(f, h, decErr, rawErr) ==
    LET e1 == IF decErr THEN [kind |-> "decoderclose", path |-> h.path]
              ELSE NoErr
        e2 == IF rawErr THEN [kind |-> "close", path |-> h.path] ELSE NoErr
        r  == closerClose(f.closer, e1, e2)
    IN [err |-> r.err,
        log |-> r.log,
        decReleases |-> f.decReleases + Reached(r.log, "decoder"),
        handle |-> IF Reached(r.log, "raw") > 0 THEN RawClose(h) ELSE h]

-----------------------------------------------------------------------------
(* directory entries *)

\* a file mode: the type bits and the permission bits
FileMode(isDir) ==
    IF isDir THEN [type |-> "dir", perm |-> 493]
    ELSE [type |-> "regular", perm |-> 420]

\* fs.FileMode.Type: the type bits alone
ModeType(mode) == [mode EXCEPT !.perm = 0]

\* the entry names a directory of the store may hold, in the order the
\* store lists them (sorted by name)
NamePool ==
    << <<"a">>,
       <<"a", ".", "g", "z">>,
       <<"s", ".", "z", "s", "t">>,
       <<"x", ".", "g", "z", ".", "l", "z", "4">>,
       <<"x", ".", "l", "z", "4", ".", "g", "z">> >>

\* an fs.DirEntry of the store; infoFails: its Info() returns an error
StoreEntry(name, isDir, infoFails) ==
    [name |-> name, isDir |-> isDir, mode |-> FileMode(isDir),
     size |-> Len(name), modTime |-> 1000 + Len(name),
     infoFails |-> infoFails]

\* the positions of a set of pool indices, in increasing order
Ascending(S) ==
    CHOOSE f \in [1..Cardinality(S) -> S] :
        \A i, j \in 1..Cardinality(S) : i < j => f[i] < f[j]

\* the listing that holds the pool's names at the positions S
MakeListing(S, isDir, infoFails) ==
    LET idx == Ascending(S)
    IN [i \in 1..Cardinality(S) |->
            StoreEntry(NamePool[idx[i]], isDir[idx[i]], infoFails[idx[i]])]

\* the directory asked for
DirD == <<"d">>

\* fs.ReadDir(dfs.FS, name) fails with one of these, or succeeds
DirErrs ==
    {NoErr, [kind |-> "notexist", path |-> DirD],
            [kind |-> "permission", path |-> DirD]}

RECURSIVE InfoIsDir(_)
InfoIsDir(info) ==
    IF IsWrapper(info) THEN InfoIsDir(info.FileInfo) ELSE info.isDir

\* &fileInfoWrapper{FileInfo: info, name: newName}, as a directory entry
fileInfoWrapper(info, newName) == [FileInfo |-> info, name |-> newName]

\* DirEntry.Name: fileInfoWrapper.Name, or the store entry's name
EntryName(e) == e.name

\* DirEntry.IsDir: fileInfoWrapper takes it from the embedded FileInfo
EntryIsDir(e) == IF IsWrapper(e) THEN InfoIsDir(e.FileInfo) ELSE e.isDir

\* DirEntry.Type: fileInfoWrapper.Type returns FileInfo.Mode(); the store's
\* entry returns the type bits
EntryType(e) == IF IsWrapper(e) THEN InfoMode(e.FileInfo) ELSE ModeType(e.mode)

\* DirEntry.Info: fileInfoWrapper.Info returns the embedded FileInfo; the
\* store's entry fetches its metadata, which may fail
EntryInfo(e) ==
    IF IsWrapper(e) THEN [info |-> e.FileInfo, err |-> NoErr]
    ELSE IF e.infoFails
    THEN [info |-> NoInfo, err |-> [kind |-> "info", path |-> e.name]]
    ELSE [info |-> [name |-> e.name, size |-> e.size, mode |-> e.mode,
                    modTime |-> e.modTime, isDir |-> e.isDir],
          err  |-> NoErr]

-----------------------------------------------------------------------------
(* DecompressFS.ReadDir *)

\* the condition under which ReadDir rewrites a file entry
HasCodecSuffix(name) == \E c \in Codecs : HasSuffix(name, Suffix(c))

\* the four TrimSuffix calls, one after the other
StripSuffixes(name) ==
    TrimSuffix(
        TrimSuffix(
            TrimSuffix(TrimSuffix(name, Suffix("gzip")), Suffix("bzip2")),
            Suffix("zstd")),
        Suffix("lz4"))

\* the loop over the entries from position i on; infoCalls are the
\* positions whose Info() has been called
RECURSIVE ReadDirLoop(_, _, _)
ReadDirLoop(entries, i, infoCalls) ==
    IF i > Len(entries)
    THEN [entries |-> entries, err |-> NoErr, infoCalls |-> infoCalls]
    ELSE LET entry == entries[i]
         IN IF EntryIsDir(entry)
            THEN ReadDirLoop(entries, i + 1, infoCalls)
            ELSE LET r == EntryInfo(entry)
                     name == EntryName(entry)
                     calls == Append(infoCalls, i)
                 IN IF r.err # NoErr
                    THEN [entries |-> <<>>, err |-> r.err,
                          infoCalls |-> calls]
                    ELSE IF HasCodecSuffix(name)
                    THEN ReadDirLoop(
                            [entries EXCEPT ![i] =
                                fileInfoWrapper(r.info, StripSuffixes(name))],
                            i + 1, calls)
                    ELSE ReadDirLoop(entries, i + 1, calls)

NoReadDir ==
    [called |-> FALSE, entries |-> <<>>, err |-> NoErr, infoCalls |-> <<>>,
     enumerated |-> <<>>]

\* the entries whose name repeats an earlier one are dropped
RECURSIVE Dedup(_)
Dedup(entries) ==
    IF entries = <<>> THEN <<>>
    ELSE LET front == Dedup(SubSeq(entries, 1, Len(entries) - 1))
             last  == entries[Len(entries)]
         IN IF \E j \in 1..Len(front) : EntryName(front[j]) = EntryName(last)
            THEN front ELSE Append(front, last)

ReadDirOutcomeDedup(d) ==
    IF d.err # NoErr
    THEN [called |-> TRUE, entries |-> <<>>, err |-> d.err,
          infoCalls |-> <<>>, enumerated |-> <<d.name>>]
    ELSE LET r == ReadDirLoop(d.entries, 1, <<>>)
         IN [called |-> TRUE, entries |-> Dedup(r.entries), err |-> r.err,
             infoCalls |-> r.infoCalls, enumerated |-> <<d.name>>]

\* the entries read so far are returned together with the error
ReadDirOutcomePartial(d) ==
    LET r == ReadDirLoop(d.entries, 1, <<>>)
    IN [called |-> TRUE, entries |-> r.entries,
        err |-> IF d.err # NoErr THEN d.err ELSE r.err,
        infoCalls |-> r.infoCalls, enumerated |-> <<d.name>>]

\* the outcome of dfs.ReadDir(d.name): enumerated are the directories the
\* store was asked to list
ReadDirOutcome(d) ==
    IF d.err # NoErr
    THEN [called |-> TRUE, entries |-> <<>>, err |-> d.err,
          infoCalls |-> <<>>, enumerated |-> <<d.name>>]
    ELSE LET r == ReadDirLoop(d.entries, 1, <<>>)
         IN [called |-> TRUE, entries |-> r.entries, err |-> r.err,
             infoCalls |-> r.infoCalls, enumerated |-> <<d.name>>]

NoDir == [name |-> DirD, entries |-> <<>>, err |-> NoErr]

\* no metadata value is being rewritten
NoMeta == [orig |-> NoInfo, cur |-> NoInfo, names |-> <<>>]

-----------------------------------------------------------------------------
(* the state machine *)

Init ==
    /\ \E lit \in {"absent", "fault", "valid"},
          kinds \in [Codecs -> ImageKinds],
          content \in Contents :
            store = MakeStore(lit, kinds, content)
    /\ call = NoCall
    /\ handle = NoHandle
    /\ file = NoFile
    /\ dir = NoDir
    /\ readdir = NoReadDir
    /\ meta = NoMeta

\* the caller is done with the file of the call being followed
Idle == file.kind = "none" \/ file.closed

\* the environment's choices that the call can observe: the kind of a
\* faulty entry's error, whether the raw file's Stat fails, whether the zstd
\* library rejects a malformed header at construction
OpenInputs(name) ==
    LET lit   == StoreOpen(name, "io")
        pr    == Probe(name, 1, "io")
        probe == lit # NoErr /\ IsNotExist(lit)
    IN [litKind   : IF lit.kind = "io" THEN FaultKinds ELSE {"io"},
        faultKind : IF probe /\ pr.codec = "none"
                       /\ \E i \in 1..Len(pr.opened) :
                             StoreOpen(pr.opened[i], "io").kind = "io"
                    THEN FaultKinds ELSE {"io"},
        statFails : IF probe /\ pr.codec # "none" THEN BOOLEAN ELSE {FALSE},
        rejects   : IF probe /\ pr.codec = "zstd" THEN BOOLEAN ELSE {FALSE}]

Open(name) ==
    /\ Idle
    /\ \E in \in OpenInputs(name) :
          LET o == OpenOutcome(name, in.litKind, in.faultKind, in.statFails,
                               in.rejects)
          IN /\ call' = o.call
             /\ handle' = o.handle
             /\ file' = o.file
    /\ UNCHANGED <<store, dir, readdir, meta>>

Read ==
    /\ file.kind # "none"
    /\ ~file.closed
    /\ ~file.readDone
    /\ LET r == ReadAll(file, handle)
       IN file' = [file EXCEPT !.readDone = TRUE, !.readData = r.data,
                               !.readErr = r.err]
    /\ UNCHANGED <<store, call, handle, dir, readdir, meta>>

Stat ==
    /\ file.kind # "none"
    /\ ~file.closed
    /\ file.statCalls < MaxStats
    /\ \E statFails \in BOOLEAN :
          LET r == StatOutcome(file, handle, statFails)
          IN /\ file' = [file EXCEPT !.statCalls = @ + 1,
                                     !.statInfo = r.info, !.statErr = r.err]
             /\ handle' = r.handle
    /\ UNCHANGED <<store, call, dir, readdir, meta>>

Close ==
    /\ file.kind # "none"
    /\ ~file.closed
    /\ \E decErr \in IF file.closer = "multi" THEN BOOLEAN ELSE {FALSE},
          rawErr \in BOOLEAN :
          LET r == CloseOutcome(file, handle, decErr, rawErr)
          IN /\ file' = [file EXCEPT !.closed = TRUE, !.closeErr = r.err,
                                     !.closeLog = r.log,
                                     !.decReleases = r.decReleases]
             /\ handle' = r.handle
    /\ UNCHANGED <<store, call, dir, readdir, meta>>

Next ==
    \/ \E name \in RequestPaths : Open(name)
    \/ Read
    \/ Stat
    \/ Close

Spec == Init /\ [][Next]_vars

-----------------------------------------------------------------------------
(* the directory listing on its own *)

\* the store and the file being followed, left as they start
NoOpenState ==
    /\ store = MakeStore("absent", [c \in Codecs |-> "absent"], <<>>)
    /\ call = NoCall
    /\ handle = NoHandle
    /\ file = NoFile

InitDir ==
    /\ NoOpenState
    /\ \E S \in SUBSET (1..Len(NamePool)) :
          /\ Cardinality(S) <= MaxEntries
          /\ \E isDir \in [S -> BOOLEAN], infoFails \in [S -> BOOLEAN],
                err \in DirErrs :
                dir = [name |-> DirD,
                       entries |-> MakeListing(S, isDir, infoFails),
                       err |-> err]
    /\ readdir = NoReadDir
    /\ meta = NoMeta

ReadDir ==
    /\ ~readdir.called
    /\ readdir' = ReadDirOutcome(dir)
    /\ UNCHANGED <<store, call, handle, file, dir, meta>>

NextDir == ReadDir

SpecDir == InitDir /\ [][NextDir]_vars

-----------------------------------------------------------------------------
(* metadata rewriting on its own *)

\* the metadata values rewritten: those of the pool's entries
Metas ==
    {EntryInfo(StoreEntry(NamePool[i], isDir, FALSE)).info :
        i \in 1..Len(NamePool), isDir \in BOOLEAN}

\* the names they are rewritten to
NewNames ==
    {<<"a">>, <<"x">>, <<"x", ".", "l", "z", "4">>}

InitRewrite ==
    /\ NoOpenState
    /\ dir = NoDir
    /\ readdir = NoReadDir
    /\ \E m \in Metas : meta = [orig |-> m, cur |-> m, names |-> <<>>]

\* modifyFileInfo(meta.cur, newName)
Rewrite(newName) ==
    /\ Len(meta.names) < MaxWraps
    /\ meta' = [meta EXCEPT !.cur = modifyFileInfo(@, newName),
                            !.names = Append(@, newName)]
    /\ UNCHANGED <<store, call, handle, file, dir, readdir>>

NextRewrite == \E newName \in NewNames : Rewrite(newName)

SpecRewrite == InitRewrite /\ [][NextRewrite]_vars

-----------------------------------------------------------------------------
(* Properties *)

\* an Open call has been made
Called == call.path # <<>>

\* the store opens p
Present(p) == p \in DOMAIN store /\ store[p].status = "ok"

\* the store answers not-found for p
Absent(p) == p \notin DOMAIN store \/ store[p].status = "absent"

\* the store answers p with an error that is not not-found
Faulty(p) == p \in DOMAIN store /\ store[p].status = "fault"

\* the suffix order the specification states
ClaimedOrder == <<"gzip", "bzip2", "zstd", "lz4">>

Variant(c) == call.path \o Suffix(c)

\* c is the only compressed variant of the requested path that opens, and
\* it holds the encoding of content
OnlyVariant(c, content) ==
    /\ Called
    /\ Absent(call.path)
    /\ \A d \in Codecs : Present(Variant(d)) <=> d = c
    /\ store[Variant(c)].data = Encode(c, content)

\* the file reads as content and reports the requested base name
ServesContent(content) ==
    /\ call.returned
    /\ call.err = NoErr
    /\ file.readDone => file.readData = content /\ file.readErr = NoErr
    /\ file.statCalls > 0 =>
          /\ file.statErr = NoErr
          /\ InfoName(file.statInfo) = Base(call.path)

C2_LiteralWins ==
    (Called /\ Present(call.path)) =>
        /\ call.returned
        /\ call.opened = <<call.path>>
        /\ file.kind = "raw" /\ file.reader = "none"
        /\ handle.path = call.path
        /\ file.readDone =>
              file.readData = store[call.path].data /\ file.readErr = NoErr
        /\ (file.statCalls > 0 /\ file.statErr = NoErr) =>
              file.statInfo = StoreInfo(call.path)

C2_Witness ==
    /\ call.path = PathA \o Suffix("gzip")
    /\ Present(call.path)
    /\ store[call.path].data = Encode("gzip", <<1>>)
    /\ file.readDone /\ file.readData = Encode("gzip", <<1>>)
    /\ file.statCalls > 0
    /\ InfoName(file.statInfo) = <<"a", ".", "g", "z">>

\* the positions of ClaimedOrder whose variant the store opens
Openable == {i \in 1..Len(ClaimedOrder) : Present(Variant(ClaimedOrder[i]))}

FirstOpenable == CHOOSE i \in Openable : \A j \in Openable : i <= j

\* the suffixed paths in the claimed order, up to position n
Tried(n) == [i \in 1..n |-> Variant(ClaimedOrder[i])]

\* C3: when the literal open fails with not-found, Open asks the store for
\* P.gz, P.bz2, P.zst, P.lz4 in that order, each at most once, and stops at
\* the first that opens: the codec applied is that of the earliest variant
\* that opens and no later one is asked for.
C3_ProbeOrder ==
    (Called /\ Absent(call.path)) =>
        IF Openable = {}
        THEN /\ call.opened = <<call.path>> \o Tried(Len(ClaimedOrder))
             /\ call.codec = "none"
        ELSE /\ call.opened = <<call.path>> \o Tried(FirstOpenable)
             /\ call.codec = ClaimedOrder[FirstOpenable]
             /\ handle.path = Variant(call.codec)
             /\ call.returned => file.reader = call.codec

C3_Witness ==
    /\ call.path = PathA
    /\ Absent(PathA)
    /\ Openable = {2, 3, 4}
    /\ call.returned
    /\ file.reader = "bzip2"
    /\ Len(call.opened) = 3

\* C4: when the literal open fails with not-found error E and the four
\* suffixed opens fail too, Open returns E itself and no file, whatever the
\* kinds of the four errors.
C4_OriginalError ==
    (Called /\ Absent(call.path) /\ Openable = {}) =>
        /\ call.err = [kind |-> "notexist", path |-> call.path]
        /\ ~call.returned
        /\ file = NoFile
        /\ handle = NoHandle

C4_Witness ==
    /\ call.path = PathA
    /\ Absent(PathA)
    /\ Faulty(Variant("lz4")) /\ Faulty(Variant("gzip"))
    /\ Absent(Variant("bzip2"))
    /\ Openable = {}
    /\ call.err = [kind |-> "notexist", path |-> PathA]

\* C5: when the literal open fails with an error that is not not-found,
\* Open returns that error at once and asks the store for no suffixed
\* path, even if a variant would open.
C5_FaultNotMasked ==
    (Called /\ Faulty(call.path)) =>
        /\ call.err.kind \in FaultKinds
        /\ call.err.path = call.path
        /\ call.opened = <<call.path>>
        /\ ~call.returned
        /\ file = NoFile
        /\ handle = NoHandle

C5_Witness ==
    /\ call.path = PathA
    /\ Faulty(PathA)
    /\ Present(Variant("gzip"))
    /\ store[Variant("gzip")].data = Encode("gzip", <<1>>)
    /\ call.err = [kind |-> "permission", path |-> PathA]

\* C6 as stated: after a successful Open through a compressed variant and
\* a Close of the returned file, the raw handle has been closed exactly
\* once and every decoder that holds resources has been released exactly
\* once, for all four codecs.
C6_AllReleased ==
    (file.kind = "decomp" /\ file.closed) =>
        /\ handle.closes = 1
        /\ HoldsResources(file.reader) => file.decReleases = 1

C8_NoLeakOnError ==
    (Called /\ call.err # NoErr) =>
        /\ ~call.returned
        /\ file = NoFile
        /\ handle.path # <<>> => handle.closes = 1
        /\ (call.codec = "gzip" /\ ~HeaderOK("gzip", handle.data)) =>
              call.err.kind = "decode"
        /\ handle.statErr # NoErr => call.err = handle.statErr

C8_Witness ==
    /\ call.path = PathA
    /\ call.codec = "gzip"
    /\ Present(Variant("bzip2"))
    /\ call.err = [kind |-> "decode", path |-> Variant("gzip")]
    /\ handle.path = Variant("gzip")
    /\ handle.closes = 1
    /\ file = NoFile

C8_WitnessStat ==
    /\ call.codec = "zstd"
    /\ call.err.kind = "stat"
    /\ handle.path = Variant("zstd")
    /\ handle.closes = 1

\* the variant Open selected holds a stream its codec rejects
Malformed == call.codec # "none" /\ ~StreamOK(call.codec, handle.data)

\* C9 as stated: for every codec, a malformed selected variant makes Open
\* return the decode error and no file, so no opened file reports a
\* decode error on Read.
C9_AsStated ==
    /\ Malformed => (call.err.kind = "decode" /\ ~call.returned)
    /\ (file.kind = "decomp" /\ file.readDone) => file.readErr = NoErr

\* C9 (amended): a gzip variant with a malformed header makes Open return
\* the decode error and no file; a bzip2 or lz4 variant never makes Open
\* return a decode error; and a file opened over a malformed stream reports
\* the decode error on Read instead of succeeding.
C9_DecodeFaults ==
    /\ (call.codec = "gzip" /\ ~HeaderOK("gzip", handle.data)) =>
          (call.err.kind = "decode" /\ ~call.returned /\ file = NoFile)
    /\ call.codec \in {"bzip2", "lz4"} => call.err.kind # "decode"
    /\ (file.kind = "decomp" /\ file.readDone) =>
          IF StreamOK(file.reader, handle.data)
          THEN file.readErr = NoErr
          ELSE file.readErr = [kind |-> "decode", path |-> handle.path]

C9_Witness ==
    /\ call.codec = "bzip2"
    /\ handle.data = BadHeader
    /\ call.returned
    /\ file.readDone
    /\ file.readErr.kind = "decode"

C9_WitnessGzip ==
    /\ call.codec = "gzip"
    /\ handle.data = BadHeader
    /\ call.err.kind = "decode"

\* C10: the metadata Stat reports for a file opened through a compressed
\* variant has the size, mode and modification time of the compressed
\* entry and the name without the suffix; the raw file's Stat is called
\* once, by Open, and every Stat of the file returns the value kept then.
C10_StatKept ==
    file.kind = "decomp" =>
        /\ handle.stats = 1
        /\ file.statCalls > 0 =>
              /\ file.statErr = NoErr
              /\ file.statInfo = file.info
              /\ InfoSize(file.statInfo) = Len(store[handle.path].data)
              /\ InfoMode(file.statInfo) = store[handle.path].mode
              /\ InfoModTime(file.statInfo) = store[handle.path].modTime
              /\ InfoName(file.statInfo) \o Suffix(file.reader)
                    = Base(handle.path)

C10_Witness ==
    /\ file.kind = "decomp"
    /\ file.reader = "zstd"
    /\ file.statCalls = 2
    /\ handle.stats = 1
    /\ file.readDone /\ file.readData = <<1>>
    /\ InfoSize(file.statInfo) = 3
    /\ InfoName(file.statInfo) = <<"a">>

-----------------------------------------------------------------------------
(* Properties of the directory listing *)

\* ReadDir has returned entries
Listed == readdir.called /\ readdir.err = NoErr

\* the underlying entry at position i is a file whose name ends in a
\* recognized suffix
Compressed(i) ==
    ~dir.entries[i].isDir /\ HasCodecSuffix(dir.entries[i].name)

\* the name with its one trailing recognized suffix removed
WithoutSuffix(name) ==
    TrimSuffix(name,
               Suffix(CHOOSE c \in Codecs : HasSuffix(name, Suffix(c))))

\* C11 as stated: ReadDir yields one entry per underlying entry; a
\* subdirectory keeps its name and directory flag, also when its name ends
\* in a recognized suffix; a file whose name ends in a recognized suffix is
\* listed under the name without that suffix, as a non-directory with the
\* type flags of the original entry; no subdirectory is enumerated.
C11_Listing ==
    Listed =>
        /\ Len(readdir.entries) = Len(dir.entries)
        /\ readdir.enumerated = <<dir.name>>
        /\ \A i \in 1..Len(dir.entries) :
              LET o == dir.entries[i]
                  e == readdir.entries[i]
              IN /\ o.isDir =>
                       (EntryName(e) = o.name /\ EntryIsDir(e))
                 /\ Compressed(i) =>
                       /\ EntryName(e) = WithoutSuffix(o.name)
                       /\ ~EntryIsDir(e)
                       /\ EntryType(e) = EntryType(o)

\* C12: a successful ReadDir returns as many entries as the store listed,
\* and the entry at each position is the store's entry at that position or
\* a wrapper of its metadata: nothing is dropped, merged, duplicated or
\* reordered, so a.gz next to a is listed as a second a.
C12_PositionKept ==
    Listed =>
        /\ Len(readdir.entries) = Len(dir.entries)
        /\ \A i \in 1..Len(dir.entries) :
              LET o == dir.entries[i]
                  e == readdir.entries[i]
              IN \/ e = o
                 \/ /\ IsWrapper(e)
                    /\ ~o.infoFails
                    /\ e.FileInfo = EntryInfo(o).info

C12_Witness ==
    /\ Listed
    /\ Len(dir.entries) = 2
    /\ dir.entries[1].name = <<"a">> /\ ~dir.entries[1].isDir
    /\ dir.entries[2].name = <<"a", ".", "g", "z">>
    /\ Len(readdir.entries) = 2
    /\ EntryName(readdir.entries[1]) = <<"a">>
    /\ EntryName(readdir.entries[2]) = <<"a">>
    /\ IsWrapper(readdir.entries[2])

\* C13: when the store's enumeration fails with error E, ReadDir returns E
\* itself and no entries.
C13_EnumerationError ==
    (readdir.called /\ dir.err # NoErr) =>
        /\ readdir.err = dir.err
        /\ readdir.entries = <<>>
        /\ readdir.infoCalls = <<>>

C13_Witness ==
    /\ readdir.called
    /\ dir.err = [kind |-> "permission", path |-> DirD]
    /\ Len(dir.entries) = 2
    /\ ~dir.entries[1].isDir
    /\ readdir.err = dir.err
    /\ readdir.entries = <<>>

\* C15 as stated: a file entry without a recognized suffix is passed
\* through as the store returned it and has no part in the outcome: when
\* the enumeration succeeds and the directory holds only subdirectories
\* and suffix-less files, ReadDir succeeds and returns the store's
\* entries, whatever their Info() would return.
C15_SuffixlessIgnored ==
    (/\ readdir.called
     /\ dir.err = NoErr
     /\ \A i \in 1..Len(dir.entries) : ~Compressed(i)) =>
        /\ readdir.err = NoErr
        /\ readdir.entries = dir.entries

\* C16 as stated: a file entry whose name N ends in a recognized suffix is
\* listed as N without that one trailing suffix, the name Open reports for
\* the file reached through that variant, also when N carries several
\* recognized suffixes in a row.
C16_NameAsOpen ==
    Listed =>
        \A i \in 1..Len(dir.entries) :
            Compressed(i) =>
                \E c \in Codecs :
                    /\ HasSuffix(dir.entries[i].name, Suffix(c))
                    /\ EntryName(readdir.entries[i]) \o Suffix(c)
                          = dir.entries[i].name

\* C17 as stated: the metadata fetched from a rewritten entry carries the
\* entry's stripped name, and the size, mode and modification time of the
\* original entry.
C17_InfoOfRewritten ==
    Listed =>
        \A i \in 1..Len(dir.entries) :
            IsWrapper(readdir.entries[i]) =>
                LET e == readdir.entries[i]
                    o == dir.entries[i]
                    m == EntryInfo(e).info
                IN /\ EntryInfo(e).err = NoErr
                   /\ InfoName(m) = EntryName(e)
                   /\ InfoSize(m) = o.size
                   /\ InfoMode(m) = o.mode
                   /\ InfoModTime(m) = o.modTime

-----------------------------------------------------------------------------
(* Properties of metadata rewriting *)

\* what the methods of a metadata value report
Fields(info) ==
    [name    |-> InfoName(info),
     size    |-> InfoSize(info),
     mode    |-> InfoMode(info),
     modTime |-> InfoModTime(info),
     isDir   |-> InfoIsDir(info)]

\* the value n wrappers down
RECURSIVE Embedded(_, _)
Embedded(info, n) == IF n = 0 THEN info ELSE Embedded(info.FileInfo, n - 1)

\* C14: rewriting is idempotent and non-destructive: after rewriting m to
\* a and then to b (b = a included) every method reports what one rewrite
\* of m to b reports, that is m's fields with the name b, and m itself,
\* embedded in the result, still reports its own name.
C14_Rewrite ==
    LET n == Len(meta.names)
    IN n >= 1 =>
        /\ Fields(meta.cur) = [Fields(meta.orig) EXCEPT !.name = meta.names[n]]
        /\ Fields(meta.cur) = Fields(modifyFileInfo(meta.orig, meta.names[n]))
        /\ Embedded(meta.cur, n) = meta.orig
        /\ InfoName(Embedded(meta.cur, n)) = meta.orig.name

C14_Witness ==
    /\ meta.names = <<(<<"x">>), (<<"x">>)>>
    /\ meta.orig.name = <<"x", ".", "l", "z", "4", ".", "g", "z">>
    /\ InfoName(meta.cur) = <<"x">>
    /\ InfoSize(meta.cur) = 8
    /\ InfoName(meta.orig) # InfoName(meta.cur)

C14_WitnessTwoNames ==
    /\ meta.names = <<(<<"a">>), (<<"x">>)>>
    /\ InfoName(meta.cur) = <<"x">>
    /\ InfoName(meta.orig) = <<"s", ".", "z", "s", "t">>

=============================================================================
